---- MODULE Spec2Model ----
(***************************************************************************)
(* Model of the comfort-monitoring backend (src/core): the scoring and     *)
(* alert functions of utils.py, the ingestion service collect_measurement  *)
(* of services.py with its database transaction, the collect_mesure view   *)
(* with its channel notification, the list views that read the tables,    *)
(* and the evolution and statistics views with the queries they run.       *)
(*                                                                         *)
(* Representation of numbers.  Sensor values are whole numbers of their    *)
(* unit (degrees, percent, ppm, dB, lux).  On such inputs every parameter  *)
(* score is a whole number of points (100 - 10 * deviation).  The weights  *)
(* 0.25, 0.20, 0.25, 0.20, 0.10 are kept as hundredths (25, 20, 25, 20,    *)
(* 10), so a global score is kept in hundredths of a point: 9000 stands    *)
(* for 90.0 and the status thresholds 70 and 40 are 7000 and 4000.         *)
(***************************************************************************)
EXTENDS Integers, Sequences, FiniteSets, TLC

VARIABLES salles, mesures, indices, alertes, nextMesureId, w, channel, seen,
          requests, calc, evo, stats, clock

vars == <<salles, mesures, indices, alertes, nextMesureId, w, channel, seen,
          requests, calc, evo, stats, clock>>

(***************************************************************************)
(* utils.py: the threshold and weight tables.                              *)
(***************************************************************************)
THRESHOLDS ==
    [temperature |-> [min |-> 22, max |-> 26],
     humidite    |-> [min |-> 40, max |-> 60],
     bruit       |-> [max |-> 60],
     luminosite  |-> [min |-> 300, max |-> 500],
     air         |-> [max |-> 1000]]

\* The weights in hundredths.
WEIGHTS ==
    [temperature |-> 25, humidite |-> 20, air |-> 25, bruit |-> 20,
     luminosite |-> 10]

\* The five parameters, in the order the code's dictionaries list them.
ParamOrder == <<"temperature", "humidite", "air", "bruit", "luminosite">>

Params == {ParamOrder[k] : k \in 1..Len(ParamOrder)}

STATUT_CHOICES == {"comfort", "warning", "danger"}

TYPE_CHOICES == {"temperature", "humidite", "air", "bruit", "luminosite"}

NIVEAU_CHOICES == {"warning", "danger"}

\* Python's max(a, b).
Max(a, b) == IF a >= b THEN a ELSE b

\* A mutant of calculate_parameter_score: the penalty is not floored at 0.
calculate_parameter_score_nofloor(value, param) ==
    LET thresh == THRESHOLDS[param] IN
    IF "min" \in DOMAIN thresh /\ "max" \in DOMAIN thresh
    THEN IF thresh.min <= value /\ value <= thresh.max
         THEN 100
         ELSE LET deviation == IF value < thresh.min
                               THEN thresh.min - value
                               ELSE value - thresh.max
              IN  100 - deviation * 10
    ELSE IF value <= thresh.max
         THEN 100
         ELSE 100 - (value - thresh.max) * 10

calculate_parameter_score(value, param) ==
    LET thresh == THRESHOLDS[param] IN
    IF "min" \in DOMAIN thresh /\ "max" \in DOMAIN thresh
    THEN IF thresh.min <= value /\ value <= thresh.max
         THEN 100
         ELSE LET deviation == IF value < thresh.min
                               THEN thresh.min - value
                               ELSE value - thresh.max
              IN  Max(0, 100 - deviation * 10)
    ELSE IF "max" \in DOMAIN thresh
    THEN IF value <= thresh.max
         THEN 100
         ELSE LET deviation == value - thresh.max
              IN  Max(0, 100 - deviation * 10)
    ELSE IF "min" \in DOMAIN thresh
    THEN IF value >= thresh.min
         THEN 100
         ELSE LET deviation == thresh.min - value
              IN  Max(0, 100 - deviation * 10)
    ELSE 0

\* A mutant of calculate_global_score: the weights of humidite and air are
\* exchanged (the weights still sum to 1).
calculate_global_score_swapped(scores) ==
    scores.temperature * WEIGHTS.temperature +
    scores.humidite * WEIGHTS.air +
    scores.air * WEIGHTS.humidite +
    scores.bruit * WEIGHTS.bruit +
    scores.luminosite * WEIGHTS.luminosite

\* The weighted global score, in hundredths of a point.
calculate_global_score(scores) ==
    scores.temperature * WEIGHTS.temperature +
    scores.humidite * WEIGHTS.humidite +
    scores.air * WEIGHTS.air +
    scores.bruit * WEIGHTS.bruit +
    scores.luminosite * WEIGHTS.luminosite

\* A mutant of determine_status: the lower ends of the bands are exclusive.
determine_status_exclusive(global_score) ==
    IF global_score > 70 * 100 THEN "comfort"
    ELSE IF global_score > 40 * 100 THEN "warning"
    ELSE "danger"

\* global_score is in hundredths, so 70 and 40 are 70 * 100 and 40 * 100.
determine_status(global_score) ==
    IF global_score >= 70 * 100 THEN "comfort"
    ELSE IF global_score >= 40 * 100 THEN "warning"
    ELSE "danger"

\* The message f"Valeur {param} ({value}) hors seuil ({seuil})", kept as the
\* three values it is formatted from.
AlertMessage(param, value, seuil) == <<"Valeur", param, value, "hors seuil", seuil>>

AlertDict(param, value, seuil, niveau) ==
    [type |-> param, valeur |-> value, seuil |-> seuil, niveau |-> niveau,
     message |-> AlertMessage(param, value, seuil)]

\* A mutant of param_alerts: the upper-bound-only parameters use the
\* tolerance of the range parameters (5 instead of 10).
param_alerts_tol5(param, value) ==
    LET thresh == THRESHOLDS[param] IN
    IF "min" \in DOMAIN thresh /\ "max" \in DOMAIN thresh
    THEN IF value < thresh.min
         THEN <<AlertDict(param, value, thresh.min,
                   IF value >= thresh.min - 5 THEN "warning" ELSE "danger")>>
         ELSE IF value > thresh.max
         THEN <<AlertDict(param, value, thresh.max,
                   IF value <= thresh.max + 5 THEN "warning" ELSE "danger")>>
         ELSE <<>>
    ELSE IF value > thresh.max
         THEN <<AlertDict(param, value, thresh.max,
                   IF value <= thresh.max + 5 THEN "warning" ELSE "danger")>>
         ELSE <<>>

\* A mutant of param_alerts: a value on the boundary counts as out of range.
param_alerts_boundary(param, value) ==
    LET thresh == THRESHOLDS[param] IN
    IF "min" \in DOMAIN thresh /\ "max" \in DOMAIN thresh
    THEN IF value <= thresh.min
         THEN <<AlertDict(param, value, thresh.min,
                   IF value >= thresh.min - 5 THEN "warning" ELSE "danger")>>
         ELSE IF value >= thresh.max
         THEN <<AlertDict(param, value, thresh.max,
                   IF value <= thresh.max + 5 THEN "warning" ELSE "danger")>>
         ELSE <<>>
    ELSE IF value >= thresh.max
         THEN <<AlertDict(param, value, thresh.max,
                   IF value <= thresh.max + 10 THEN "warning" ELSE "danger")>>
         ELSE <<>>

\* One iteration of the loop of generate_alerts: the alerts (none or one)
\* appended for one parameter.
param_alerts(param, value) ==
    LET thresh == THRESHOLDS[param] IN
    IF "min" \in DOMAIN thresh /\ "max" \in DOMAIN thresh
    THEN IF value < thresh.min
         THEN <<AlertDict(param, value, thresh.min,
                   IF value >= thresh.min - 5 THEN "warning" ELSE "danger")>>
         ELSE IF value > thresh.max
         THEN <<AlertDict(param, value, thresh.max,
                   IF value <= thresh.max + 5 THEN "warning" ELSE "danger")>>
         ELSE <<>>
    ELSE IF "max" \in DOMAIN thresh
    THEN IF value > thresh.max
         THEN <<AlertDict(param, value, thresh.max,
                   IF value <= thresh.max + 10 THEN "warning" ELSE "danger")>>
         ELSE <<>>
    ELSE IF "min" \in DOMAIN thresh
    THEN IF value < thresh.min
         THEN <<AlertDict(param, value, thresh.min,
                   IF value >= thresh.min - 10 THEN "warning" ELSE "danger")>>
         ELSE <<>>
    ELSE <<>>

RECURSIVE alerts_from(_, _)
alerts_from(mesure, k) ==
    IF k > Len(ParamOrder) THEN <<>>
    ELSE param_alerts(ParamOrder[k], mesure[ParamOrder[k]]) \o alerts_from(mesure, k + 1)

\* generate_alerts(mesure, scores); scores is not read by the code.
generate_alerts(mesure, scores) == alerts_from(mesure, 1)

\* The scores dictionary built by collect_measurement.
parameter_scores(mesure) ==
    [p \in Params |-> calculate_parameter_score(mesure[p], p)]

(***************************************************************************)
(* The database.  A row carries tx, the set of open transactions that hold *)
(* it uncommitted: {p} while worker p is inside its transaction.atomic()   *)
(* block, {} once committed.  Other connections see committed rows only.   *)
(***************************************************************************)
Workers == {1, 2}

\* A mutant of Visible: a reader also sees rows of open transactions.
VisibleDirty(rows) == rows

\* The rows a query outside any transaction returns.
Visible(rows) == {r \in rows : r.tx = {}}

\* The rows a query inside the transaction of worker p returns.
VisibleTo(rows, p) == {r \in rows : r.tx = {} \/ r.tx = {p}}

\* Leaving the atomic block normally: the rows of p become committed.
CommitRows(rows, p) ==
    {IF r.tx = {p} THEN [r EXCEPT !.tx = {}] ELSE r : r \in rows}

\* A mutant of RollbackRows: no transaction, each write was committed when
\* it was made and stays.
RollbackRows_autocommit(rows, p) ==
    {IF r.tx = {p} THEN [r EXCEPT !.tx = {}] ELSE r : r \in rows}

\* Leaving the atomic block by an exception: the rows of p are removed.
RollbackRows(rows, p) == {r \in rows : r.tx # {p}}

(***************************************************************************)
(* Requests.  request.data is a dictionary: keys is the set of keys it     *)
(* holds and val their values (0 for a key that is absent).                *)
(***************************************************************************)
Reading(t, h, a, b, l) ==
    [temperature |-> t, humidite |-> h, air |-> a, bruit |-> b, luminosite |-> l]

\* The reading of the end-to-end scenario: temperature 4 above its maximum.
BaseReading == Reading(30, 50, 500, 55, 400)

\* The reading the concurrent specification sends with a room: two alerts.
Readings == {Reading(10, 50, 500, 55, 295)}

\* The readings of the sequential specification: the cases on and next to
\* the boundaries of the zones, of the alert levels and of the status bands,
\* and every combination of three (two) values per parameter.
IngestReadings ==
    {Reading(23, 50, 500, 55, 400),     \* all inside: 100.0, no alert
     BaseReading,                        \* 90.0, one warning
     Reading(22, 40, 1000, 60, 300),    \* on the boundaries
     Reading(26, 60, 1000, 60, 500),
     Reading(10, 20, 1100, 75, 100),    \* all five scores 0
     Reading(10, 50, 500, 55, 295),     \* global 70.0
     Reading(10, 50, 1001, 55, 297),    \* global 69.5
     Reading(10, 50, 1100, 55, 100),    \* global 40.0
     Reading(10, 34, 1009, 55, 299),    \* global 39.5
     Reading(31, 65, 1010, 70, 505),    \* above, on the warning limits
     Reading(32, 66, 1011, 71, 506),    \* above, just past them
     Reading(17, 35, 500, 65, 295),     \* below, on the warning limits
     Reading(16, 34, 500, 75, 294)}     \* below, just past them
    \cup
    {Reading(t, h, a, b, l) : t \in {16, 24, 31}, h \in {35, 50, 66},
                              a \in {1000, 1011}, b \in {60, 70},
                              l \in {294, 400, 505}}

ValueKeys == {"temperature", "humidite", "air", "bruit", "luminosite"}

Request(keys, salle_id, r, ts) ==
    [keys |-> keys,
     val  |-> [salle_id |-> salle_id, temperature |-> r.temperature,
               humidite |-> r.humidite, air |-> r.air, bruit |-> r.bruit,
               luminosite |-> r.luminosite, timestamp |-> ts]]

IngestRequests ==
    {Request(ValueKeys \cup {"salle_id"}, 2, r, 0) : r \in IngestReadings}
    \cup
    {Request(ValueKeys \cup {"salle_id", "timestamp"}, 1, BaseReading, 7),
     Request(ValueKeys, 0, BaseReading, 0),
     Request({"salle_id"}, 2, Reading(0, 0, 0, 0, 0), 0)}

Requests ==
    {Request(ValueKeys \cup {"salle_id"}, 2, r, 0) : r \in Readings}
    \cup
    {Request(ValueKeys, 0, BaseReading, 0),                       \* no salle_id
     Request(ValueKeys \cup {"salle_id"}, 0, BaseReading, 0),     \* salle_id 0
     Request(ValueKeys \cup {"salle_id"}, 3, BaseReading, 0),     \* no such room
     Request((ValueKeys \ {"temperature"}) \cup {"salle_id"}, 2,
             Reading(0, 50, 500, 55, 400), 0)}

\* The rooms the administrator has created.
Rooms == {1, 2}

\* The time on the clock.
Now == clock

\* Bound of the model: the clock stops at this time.
MaxClock == 1

\* timezone.now(): the times a reading of the clock may give.  Time passes
\* between two readings, or does not within the resolution of the clock; it
\* never runs backwards.
timezone_now == Now..MaxClock

\* Python's data.get(key, default).
Get(data, key, default) ==
    IF key \in data.keys THEN data.val[key] ELSE default

\* The keys of mesure_data whose value is None (data.get(key) of an absent key).
NoneFields(data) == ValueKeys \ data.keys

\* MesureSerializer(data=mesure_data).is_valid(): the five FloatFields are
\* required and not nullable; the salle was just fetched, so it exists.
MesureSerializer_is_valid(data) == NoneFields(data) = {}

\* IndiceConfortSerializer(data=indice_data).is_valid(), run inside the
\* transaction of p: the mesure exists, no other indice holds it (OneToOne),
\* and statut is one of the choices.
IndiceConfortSerializer_is_valid(indice_data, p) ==
    /\ \E m \in VisibleTo(mesures, p) : m.id = indice_data.mesure
    /\ ~ \E x \in VisibleTo(indices, p) : x.mesure = indice_data.mesure
    /\ indice_data.statut \in STATUT_CHOICES

\* AlerteSerializer(data=alert_data).is_valid(), run inside the transaction.
AlerteSerializer_is_valid(alert_data, p) ==
    /\ \E m \in VisibleTo(mesures, p) : m.id = alert_data.mesure
    /\ alert_data.type \in TYPE_CHOICES
    /\ alert_data.niveau \in NIVEAU_CHOICES

NoData == [keys |-> {}, val |-> <<>>]

NoResponse == [status |-> 0, body |-> "none"]

IdleWorker ==
    [pc |-> "idle", data |-> NoData, timestamp |-> 0, mesure_id |-> 0,
     alerts_data |-> <<>>,
     i |-> 0, created_alerts |-> <<>>, sends |-> 0, response |-> NoResponse]

\* Bounds of the model.
MaxRequests == 2

MaxIngest == 1

InitStore ==
    /\ salles = Rooms
    /\ mesures = {}
    /\ indices = {}
    /\ alertes = {}
    /\ nextMesureId = 1
    /\ w = [p \in Workers |-> IdleWorker]
    /\ channel = {}
    /\ seen = [endpoint |-> "none", rows |-> {}]
    /\ requests = 0
    /\ clock = 0

Init ==
    /\ InitStore
    /\ calc = [stage |-> "off"]
    /\ evo = [stage |-> "off"]
    /\ stats = [stage |-> "off"]

Finish(p, status, body) ==
    [w EXCEPT ![p].pc = "done", ![p].response = [status |-> status, body |-> body]]

\* collect_mesure receives a request: collect_measurement up to the atomic
\* block (services.py 24-42), and the error responses of the view.
Receive(p, data) ==
    /\ w[p].pc \in {"idle", "done"}
    /\ requests' = requests + 1
    /\ LET salle_id == Get(data, "salle_id", 1)
           fresh == [IdleWorker EXCEPT !.data = data]
       IN  IF salle_id = 0
           THEN \* not salle_id: ValueError, answered 400
                /\ w' = [w EXCEPT ![p] = [fresh EXCEPT !.pc = "done",
                        !.response = [status |-> 400, body |-> "salle_id is required"]]]
                /\ clock' = clock
           ELSE IF salle_id \notin salles
           THEN \* get_object_or_404: Http404, answered 404
                /\ w' = [w EXCEPT ![p] = [fresh EXCEPT !.pc = "done",
                        !.response = [status |-> 404, body |-> "not found"]]]
                /\ clock' = clock
           ELSE \* mesure_data is built: data.get('timestamp', timezone.now())
                \* reads the clock now, before the serializer validates and
                \* before the atomic block
                \E t \in timezone_now :
                   /\ clock' = t
                   /\ IF ~ MesureSerializer_is_valid(data)
                      THEN \* ValidationError, answered 400
                           w' = [w EXCEPT ![p] = [fresh EXCEPT !.pc = "done",
                                   !.response = [status |-> 400,
                                                 body |-> "validation"]]]
                      ELSE w' = [w EXCEPT ![p] = [fresh EXCEPT
                                   !.pc = "save_mesure",
                                   !.timestamp = Get(data, "timestamp", t)]]
    /\ UNCHANGED <<salles, mesures, indices, alertes, nextMesureId, channel,
                   seen, calc, evo, stats>>

\* mesure = mesure_serializer.save(), the first write of the atomic block.
SaveMesure(p) ==
    /\ w[p].pc = "save_mesure"
    /\ LET data == w[p].data IN
       mesures' = mesures \cup
           {[id |-> nextMesureId, salle |-> Get(data, "salle_id", 1),
             temperature |-> data.val.temperature,
             humidite |-> data.val.humidite, air |-> data.val.air,
             bruit |-> data.val.bruit, luminosite |-> data.val.luminosite,
             timestamp |-> w[p].timestamp, tx |-> {p}]}
    /\ nextMesureId' = nextMesureId + 1
    /\ w' = [w EXCEPT ![p].pc = "save_indice", ![p].mesure_id = nextMesureId]
    /\ UNCHANGED <<salles, indices, alertes, channel, seen, requests, calc, evo, stats, clock>>

\* The row of the mesure object worker p holds.
MesureOf(p) == CHOOSE m \in mesures : m.id = w[p].mesure_id

\* The scores, the global score, the status and the comfort index
\* (services.py 48-75), then generate_alerts (78-79).
SaveIndice(p) ==
    /\ w[p].pc = "save_indice"
    /\ LET mesure == MesureOf(p)
           scores == parameter_scores(mesure)
           global_score == calculate_global_score(scores)
           statut == determine_status(global_score)
           indice_data ==
               [mesure |-> mesure.id, score_global |-> global_score,
                statut |-> statut,
                score_temperature |-> scores.temperature,
                score_humidite |-> scores.humidite,
                score_air |-> scores.air,
                score_bruit |-> scores.bruit,
                score_luminosite |-> scores.luminosite,
                timestamp |-> mesure.timestamp]
       IN  IF ~ IndiceConfortSerializer_is_valid(indice_data, p)
           THEN \* ValidationError inside the block: rolled back, answered 400
                /\ mesures' = RollbackRows(mesures, p)
                /\ indices' = RollbackRows(indices, p)
                /\ w' = Finish(p, 400, "validation")
           ELSE /\ indices' = indices \cup
                       {[f \in DOMAIN indice_data \cup {"tx"} |->
                           IF f = "tx" THEN {p} ELSE indice_data[f]]}
                /\ mesures' = mesures
                /\ w' = [w EXCEPT ![p].pc = "alerts",
                                  ![p].alerts_data = generate_alerts(mesure, scores),
                                  ![p].i = 1]
    /\ UNCHANGED <<salles, alertes, nextMesureId, channel, seen, requests,
                   calc, evo, stats, clock>>

\* One iteration of the loop over alerts_data (services.py 80-85).
SaveAlerte(p) ==
    /\ w[p].pc = "alerts"
    /\ w[p].i <= Len(w[p].alerts_data)
    /\ LET alert_data == [f \in DOMAIN w[p].alerts_data[w[p].i] \cup {"mesure"} |->
                            IF f = "mesure" THEN w[p].mesure_id
                            ELSE w[p].alerts_data[w[p].i][f]]
       IN  IF AlerteSerializer_is_valid(alert_data, p)
           THEN \* alert_serializer.save(): the timestamp of the row is its
                \* default, timezone.now, read at the save
                /\ \E t \in timezone_now :
                      /\ clock' = t
                      /\ alertes' = alertes \cup
                          {[f \in DOMAIN alert_data \cup
                                    {"id", "timestamp", "tx"} |->
                              CASE f = "id" -> <<w[p].mesure_id, w[p].i>>
                                [] f = "timestamp" -> t
                                [] f = "tx" -> {p}
                                [] OTHER -> alert_data[f]]}
                /\ w' = [w EXCEPT ![p].i = @ + 1,
                                  ![p].created_alerts =
                                      Append(@, <<w[p].mesure_id, w[p].i>>)]
           ELSE \* an alert that does not validate is skipped
                /\ UNCHANGED <<alertes, clock>>
                /\ w' = [w EXCEPT ![p].i = @ + 1]
    /\ UNCHANGED <<salles, mesures, indices, nextMesureId, channel, seen,
                   requests, calc, evo, stats>>

\* The end of the atomic block: the transaction commits.
Commit(p) ==
    /\ w[p].pc = "alerts"
    /\ w[p].i > Len(w[p].alerts_data)
    /\ mesures' = CommitRows(mesures, p)
    /\ indices' = CommitRows(indices, p)
    /\ alertes' = CommitRows(alertes, p)
    /\ w' = [w EXCEPT ![p].pc = "publish"]
    /\ UNCHANGED <<salles, nextMesureId, channel, seen, requests, calc, evo, stats, clock>>

\* A write of the atomic block raises a database error: the block is left
\* by the exception, the transaction is rolled back, and the view, which
\* catches ValueError and ValidationError only, answers 500.
PersistenceFailure(p) ==
    /\ \/ w[p].pc \in {"save_mesure", "save_indice"}
       \/ w[p].pc = "alerts" /\ w[p].i <= Len(w[p].alerts_data)
    /\ mesures' = RollbackRows(mesures, p)
    /\ indices' = RollbackRows(indices, p)
    /\ alertes' = RollbackRows(alertes, p)
    /\ w' = Finish(p, 500, "persistence")
    /\ UNCHANGED <<salles, nextMesureId, channel, seen, requests, calc, evo, stats, clock>>

\* The message sent to the group of the room; send numbers the calls of
\* group_send within one request.
Bundle(p) ==
    [group |-> MesureOf(p).salle, mesure |-> w[p].mesure_id,
     alertes |-> w[p].created_alerts, send |-> w[p].sends + 1]

\* A mutant of Publish: the message is sent at the end of the atomic block,
\* before the transaction commits.
Publish_inside_block(p) ==
    /\ w[p].pc = "alerts"
    /\ w[p].i > Len(w[p].alerts_data)
    /\ w[p].sends = 0
    /\ channel' = channel \cup {Bundle(p)}
    /\ w' = [w EXCEPT ![p].sends = @ + 1]
    /\ UNCHANGED <<salles, mesures, indices, alertes, nextMesureId, seen,
                   requests, calc, evo, stats, clock>>

\* views.py 20-29: group_send succeeds and the view answers 201.
Publish(p) ==
    /\ w[p].pc = "publish"
    /\ channel' = channel \cup {Bundle(p)}
    /\ w' = [Finish(p, 201, "created") EXCEPT ![p].sends = @ + 1]
    /\ UNCHANGED <<salles, mesures, indices, alertes, nextMesureId, seen,
                   requests, calc, evo, stats, clock>>

\* views.py 20-33: get_channel_layer or group_send raises.  A ValueError or
\* a ValidationError is caught by the view and answered 400; any other
\* exception leaves the view and the request is answered 500.  The send is
\* not retried.
PublishFailure(p) ==
    /\ w[p].pc = "publish"
    /\ \E status \in {400, 500} :
           w' = [Finish(p, status, "notification") EXCEPT ![p].sends = @ + 1]
    /\ UNCHANGED <<salles, mesures, indices, alertes, nextMesureId, channel,
                   seen, requests, calc, evo, stats, clock>>

\* The list views, without filters: one query each.
list_mesures ==
    /\ seen' = [endpoint |-> "mesures", rows |-> {m.id : m \in Visible(mesures)}]
    /\ UNCHANGED <<salles, mesures, indices, alertes, nextMesureId, w, channel,
                   requests, calc, evo, stats, clock>>

list_indices_confort ==
    /\ seen' = [endpoint |-> "indices",
                rows |-> {x.mesure : x \in
                            {y \in Visible(indices) :
                               \E m \in Visible(mesures) : m.id = y.mesure}}]
    /\ UNCHANGED <<salles, mesures, indices, alertes, nextMesureId, w, channel,
                   requests, calc, evo, stats, clock>>

list_alertes ==
    /\ seen' = [endpoint |-> "alertes",
                rows |-> {<<a.id, a.mesure>> : a \in
                            {b \in Visible(alertes) :
                               \E m \in Visible(mesures) : m.id = b.mesure}}]
    /\ UNCHANGED <<salles, mesures, indices, alertes, nextMesureId, w, channel,
                   requests, calc, evo, stats, clock>>

Next ==
    \/ \E p \in Workers, data \in Requests :
          requests < MaxRequests /\ Receive(p, data)
    \/ \E p \in Workers : SaveMesure(p)
    \/ \E p \in Workers : SaveIndice(p)
    \/ \E p \in Workers : SaveAlerte(p)
    \/ \E p \in Workers : Commit(p)
    \/ \E p \in Workers : PersistenceFailure(p)
    \/ \E p \in Workers : Publish(p)
    \/ \E p \in Workers : PublishFailure(p)
    \/ list_mesures
    \/ list_indices_confort
    \/ list_alertes

Spec == Init /\ [][Next]_vars

(***************************************************************************)
(* The sequential specification: one worker ingests readings of a wider    *)
(* set one after the other.                                                *)
(***************************************************************************)
NextIngest ==
    \/ \E data \in IngestRequests : requests < MaxIngest /\ Receive(1, data)
    \/ SaveMesure(1)
    \/ SaveIndice(1)
    \/ SaveAlerte(1)
    \/ Commit(1)
    \/ PersistenceFailure(1)
    \/ Publish(1)
    \/ PublishFailure(1)

SpecIngest == Init /\ [][NextIngest]_vars

(***************************************************************************)
(* The functions of utils.py on their own: a reading is drawn from a wide  *)
(* set of values and run through the computations of collect_measurement   *)
(* (services.py 48-57 and 78), without the database.                       *)
(***************************************************************************)
ProbeValues ==
    [temperature |-> {10, 12, 16, 17, 21, 22, 24, 26, 31, 32, 37},
     humidite    |-> {29, 30, 34, 35, 40, 50, 60, 65, 66, 71},
     luminosite  |-> {289, 290, 294, 295, 300, 400, 500, 505, 506, 511},
     bruit       |-> {55, 60, 61, 65, 70, 71, 75},
     air         |-> {500, 1000, 1001, 1010, 1011}]

InitCalc ==
    /\ InitStore
    /\ evo = [stage |-> "off"]
    /\ stats = [stage |-> "off"]
    /\ \E t \in ProbeValues.temperature, h \in ProbeValues.humidite,
          a \in ProbeValues.air, b \in ProbeValues.bruit,
          l \in ProbeValues.luminosite :
          calc = [stage |-> "input", mesure |-> Reading(t, h, a, b, l)]

CalcScores ==
    /\ calc.stage = "input"
    /\ LET scores == parameter_scores(calc.mesure)
           global_score == calculate_global_score(scores)
       IN  calc' = [stage |-> "scored", mesure |-> calc.mesure,
                    scores |-> scores, global_score |-> global_score,
                    statut |-> determine_status(global_score)]
    /\ UNCHANGED <<salles, mesures, indices, alertes, nextMesureId, w, channel,
                   seen, requests, evo, stats, clock>>

CalcAlerts ==
    /\ calc.stage = "scored"
    /\ calc' = [f \in DOMAIN calc \cup {"alerts"} |->
                  CASE f = "stage" -> "alerted"
                    [] f = "alerts" -> generate_alerts(calc.mesure, calc.scores)
                    [] OTHER -> calc[f]]
    /\ UNCHANGED <<salles, mesures, indices, alertes, nextMesureId, w, channel,
                   seen, requests, evo, stats, clock>>

NextCalc == CalcScores \/ CalcAlerts

SpecCalc == InitCalc /\ [][NextCalc]_vars

(***************************************************************************)
(* GET /api/evolution/.  Time is counted in ticks; an hour is TicksPerHour *)
(* ticks and a day is 24 hours.  The score columns of a bucket are grouped *)
(* by aggregate: min.score_global stands for min_score_global, and so on.  *)
(* Avg is kept exact as the pair of the sum and the number of records.     *)
(***************************************************************************)
TicksPerHour == 2

\* timedelta(hours=1)
HourDelta == TicksPerHour

\* timedelta(days=1)
DayDelta == 24 * HourDelta

\* A mutant of TruncHour: the timestamp is kept as it is.
TruncHour_identity(t) == t

\* TruncHour("timestamp"): the start of the hour the timestamp lies in.
TruncHour(t) == t - (t % HourDelta)

\* TruncDay("timestamp"): the start of the day the timestamp lies in.
TruncDay(t) == t - (t % DayDelta)

\* trunc_func and delta as the branch on period selects them.
trunc_func(period, t) == IF period = "hour" THEN TruncHour(t) ELSE TruncDay(t)

delta(period) == IF period = "hour" THEN HourDelta ELSE DayDelta

\* The six score columns of IndiceConfort the evolution reports.
Signals ==
    {"score_global", "score_temperature", "score_humidite", "score_air",
     "score_bruit", "score_luminosite"}

\* IndiceConfort.objects.filter(mesure__salle_id=salle_id), as a query
\* outside any transaction sees it.
RoomIndices(salle_id) ==
    {x \in Visible(indices) :
        \E m \in Visible(mesures) : m.id = x.mesure /\ m.salle = salle_id}

\* aggregate(min_ts=Min('timestamp')) over the rows of the room.
MinTimestamp(room) ==
    CHOOSE t \in {x.timestamp : x \in room} : \A x \in room : t <= x.timestamp

\* The queryset: the rows of the room from start_date to end_date.
queryset(room, start_date, end_date) ==
    {x \in room : x.timestamp >= start_date /\ x.timestamp <= end_date}

\* The rows of the queryset grouped under one value of "period".
GroupRows(rows, period, k) ==
    {x \in rows : trunc_func(period, x.timestamp) = k}

\* Min(column) and Max(column) over the rows of a group.
MinOf(rows, s) == CHOOSE v \in {x[s] : x \in rows} : \A x \in rows : v <= x[s]

MaxOf(rows, s) == CHOOSE v \in {x[s] : x \in rows} : \A x \in rows : v >= x[s]

RECURSIVE SumOf(_, _)
SumOf(rows, s) ==
    IF rows = {} THEN 0
    ELSE LET x == CHOOSE x \in rows : TRUE
         IN  x[s] + SumOf(rows \ {x}, s)

\* Avg(column) over the rows of a group, as sum / count.
AvgOf(rows, s) == [sum |-> SumOf(rows, s), count |-> Cardinality(rows)]

\* The rows one current_..._sub subquery may return as its first row: the
\* rows of the room with period <= timestamp < period + delta, ordered by
\* -timestamp alone, so any row holding the greatest timestamp may come first.
current_sub(room, period, k) ==
    LET inside == {x \in room :
                      x.timestamp >= k /\ x.timestamp < k + delta(period)}
    IN  {x \in inside : \A y \in inside : y.timestamp <= x.timestamp}

\* The dictionaries the annotated query may yield for the group of period k:
\* min, max and avg range over the rows of the queryset, and each of the six
\* subqueries picks its first row on its own among the rows of the room.
Buckets(room, rows, period, k) ==
    LET group == GroupRows(rows, period, k)
    IN  {[period |-> k,
          min |-> [s \in Signals |-> MinOf(group, s)],
          max |-> [s \in Signals |-> MaxOf(group, s)],
          avg |-> [s \in Signals |-> AvgOf(group, s)],
          current |-> [s \in Signals |-> first[s][s]]] :
            first \in [Signals -> current_sub(room, period, k)]}

\* .order_by("period"): the groups of the periods ks in ascending order.
RECURSIVE OrderedData(_, _, _, _)
OrderedData(room, rows, period, ks) ==
    IF ks = {} THEN {<<>>}
    ELSE LET k == CHOOSE k \in ks : \A j \in ks : k <= j
         IN  {<<b>> \o rest : b \in Buckets(room, rows, period, k),
                              rest \in OrderedData(room, rows, period, ks \ {k})}

\* list(data): the lists the query may return when it runs on the rows room
\* with the dates fixed before.
EvolutionData(room, start_date, end_date, period) ==
    LET rows == queryset(room, start_date, end_date)
    IN  OrderedData(room, rows, period,
                    {trunc_func(period, x.timestamp) : x \in rows})

\* The answer of the view; first and rows are the rows of the room the first
\* and the second query of the call read.
EvolutionResponse(salle_id, period, status, first, earliest, end_date, rows, data) ==
    [stage |-> "done", salle_id |-> salle_id, period |-> period,
     status |-> status, first |-> first, earliest |-> earliest,
     end_date |-> end_date, rows |-> rows, data |-> data]

\* evolution_confort is called: the room is fixed to 1 and period comes from
\* the query string.  get_comfort_evolution runs up to its first query
\* (services.py 153-158): the earliest timestamp of the room, and [] when
\* there is none.
evolution_confort(period) ==
    /\ evo.stage \in {"off", "done"}
    /\ LET salle_id == 1
           room == RoomIndices(salle_id)
       IN  IF salle_id = 0
           THEN \* not salle_id: ValueError, answered 400
                evo' = EvolutionResponse(salle_id, period, 400, {}, 0, 0, {},
                                         <<>>)
           ELSE IF room = {}
           THEN evo' = EvolutionResponse(salle_id, period, 200, {}, 0, 0, {},
                                         <<>>)
           ELSE evo' = [stage |-> "earliest", salle_id |-> salle_id,
                        period |-> period, first |-> room,
                        earliest |-> MinTimestamp(room)]
    /\ UNCHANGED <<salles, mesures, indices, alertes, nextMesureId, w, channel,
                   seen, requests, calc, stats, clock>>

\* services.py 160-244: the clock is read and the query is built; a query
\* set is lazy, so nothing is read from the store.
get_comfort_evolution_dates ==
    /\ evo.stage = "earliest"
    /\ \E t \in timezone_now :
          /\ clock' = t
          /\ evo' = [stage |-> "query", salle_id |-> evo.salle_id,
                     period |-> evo.period, first |-> evo.first,
                     earliest |-> evo.earliest, end_date |-> t]
    /\ UNCHANGED <<salles, mesures, indices, alertes, nextMesureId, w, channel,
                   seen, requests, calc, stats>>

\* services.py 246: list(data) runs the query on the store as it is now, and
\* the view answers with the list.
get_comfort_evolution_list ==
    /\ evo.stage = "query"
    /\ LET room == RoomIndices(evo.salle_id)
       IN  \E data \in EvolutionData(room, evo.earliest, evo.end_date,
                                     evo.period) :
              evo' = EvolutionResponse(evo.salle_id, evo.period, 200,
                                       evo.first, evo.earliest, evo.end_date,
                                       room, data)
    /\ UNCHANGED <<salles, mesures, indices, alertes, nextMesureId, w, channel,
                   seen, requests, calc, stats, clock>>

\* The values of the period parameter: absent means 'day'.
Periods == {"hour", "day"}

\* Bound of the model: the number of requests received while the evolution
\* is asked for.
MaxHistory == 2

\* A second reading, comfortable where BaseReading is not and conversely.
OtherReading == Reading(24, 30, 500, 70, 400)

\* The readings sent while the evolution is asked for.  Time 0 is the start
\* of a day; a timestamp is supplied by the caller (the day before, twice
\* the same tick, a tick yet to come) or left to the clock.
EvolutionRequests ==
    {Request(ValueKeys \cup {"salle_id", "timestamp"}, 1, BaseReading, 0 - 48),
     Request(ValueKeys \cup {"salle_id", "timestamp"}, 1, OtherReading, 1),
     Request(ValueKeys \cup {"salle_id", "timestamp"}, 1, BaseReading, 1),
     Request(ValueKeys \cup {"salle_id", "timestamp"}, 1, OtherReading, 3),
     Request(ValueKeys \cup {"salle_id"}, 1, BaseReading, 0),
     Request(ValueKeys \cup {"salle_id", "timestamp"}, 2, OtherReading, 0)}

\* The evolution view running while one worker ingests readings.
NextEvolution ==
    \/ \E data \in EvolutionRequests : requests < MaxHistory /\ Receive(1, data)
    \/ SaveMesure(1)
    \/ SaveIndice(1)
    \/ SaveAlerte(1)
    \/ Commit(1)
    \/ PersistenceFailure(1)
    \/ Publish(1)
    \/ PublishFailure(1)
    \/ \E period \in Periods : evolution_confort(period)
    \/ get_comfort_evolution_dates
    \/ get_comfort_evolution_list

SpecEvolution == Init /\ [][NextEvolution]_vars

(***************************************************************************)
(* GET /api/statistiques/.  get_comfort_statistics reads the store with    *)
(* five queries, one step each, in the order they are run; None is written *)
(* -1 and a quotient is kept as the pair of its terms.                     *)
(***************************************************************************)
\* The days parameter of the query string: absent (7), a number, or a text
\* int() does not accept.
DaysParams ==
    {[numeric |-> TRUE, value |-> 7], [numeric |-> TRUE, value |-> 1],
     [numeric |-> FALSE, value |-> 0]}

\* The answer of the view.
StatisticsResponse(status, body) ==
    [stage |-> "done", status |-> status, body |-> body]

\* statistiques_confort is called: int(days) raises outside the try block
\* (500); the room is fixed to 1; get_comfort_statistics reads the clock and
\* builds the lazy query set indices (services.py 101-111).
statistiques_confort(days) ==
    /\ stats.stage \in {"off", "done"}
    /\ LET salle_id == 1
       IN  IF ~ days.numeric
           THEN stats' = StatisticsResponse(500, "days") /\ clock' = clock
           ELSE IF salle_id = 0
           THEN /\ stats' = StatisticsResponse(400, "salle_id is required")
                /\ clock' = clock
           ELSE \E t \in timezone_now :
                   /\ clock' = t
                   /\ stats' = [stage |-> "aggregate", salle_id |-> salle_id,
                                period_days |-> days.value, end_date |-> t,
                                start_date |-> t - days.value * DayDelta]
    /\ UNCHANGED <<salles, mesures, indices, alertes, nextMesureId, w, channel,
                   seen, requests, calc, evo>>

\* The query set indices, evaluated on the store as it is now.
StatisticsIndices ==
    queryset(RoomIndices(stats.salle_id), stats.start_date, stats.end_date)

\* The state of the call after one more query: stage and the value read.
StatisticsStep(stage, field, value) ==
    [f \in DOMAIN stats \cup {field} |->
        CASE f = "stage" -> stage
          [] f = field -> value
          [] OTHER -> stats[f]]

\* indices.aggregate(avg_score, max_score, min_score, count)
get_comfort_statistics_aggregate ==
    /\ stats.stage = "aggregate"
    /\ LET rows == StatisticsIndices
       IN  stats' = StatisticsStep("discomfort", "stats",
               IF rows = {}
               THEN [avg_score |-> -1, max_score |-> -1, min_score |-> -1,
                     count |-> 0]
               ELSE [avg_score |-> AvgOf(rows, "score_global"),
                     max_score |-> MaxOf(rows, "score_global"),
                     min_score |-> MinOf(rows, "score_global"),
                     count |-> Cardinality(rows)])
    /\ UNCHANGED <<salles, mesures, indices, alertes, nextMesureId, w, channel,
                   seen, requests, calc, evo, clock>>

\* indices.filter(statut__in=['warning', 'danger']).count()
get_comfort_statistics_discomfort ==
    /\ stats.stage = "discomfort"
    /\ stats' = StatisticsStep("total", "discomfort_count",
           Cardinality({x \in StatisticsIndices :
                           x.statut \in {"warning", "danger"}}))
    /\ UNCHANGED <<salles, mesures, indices, alertes, nextMesureId, w, channel,
                   seen, requests, calc, evo, clock>>

\* indices.count(), and the percentage computed from the two counts.
get_comfort_statistics_total ==
    /\ stats.stage = "total"
    /\ LET total_count == Cardinality(StatisticsIndices)
       IN  stats' = StatisticsStep("alerts", "discomfort_percentage",
               IF total_count > 0
               THEN [num |-> stats.discomfort_count * 100, den |-> total_count]
               ELSE [num |-> 0, den |-> 1])
    /\ UNCHANGED <<salles, mesures, indices, alertes, nextMesureId, w, channel,
                   seen, requests, calc, evo, clock>>

\* Alerte.objects.filter(mesure__salle_id, timestamp in the window).count()
get_comfort_statistics_alerts ==
    /\ stats.stage = "alerts"
    /\ stats' = StatisticsStep("distribution", "alert_count",
           Cardinality({a \in Visible(alertes) :
               /\ \E m \in Visible(mesures) :
                      m.id = a.mesure /\ m.salle = stats.salle_id
               /\ a.timestamp >= stats.start_date
               /\ a.timestamp <= stats.end_date}))
    /\ UNCHANGED <<salles, mesures, indices, alertes, nextMesureId, w, channel,
                   seen, requests, calc, evo, clock>>

\* list(status_counts) runs the last query, and the view answers.
get_comfort_statistics_distribution ==
    /\ stats.stage = "distribution"
    /\ LET rows == StatisticsIndices
           status_counts ==
               {[statut |-> st,
                 count |-> Cardinality({x \in rows : x.statut = st})] :
                    st \in {x.statut : x \in rows}}
       IN  stats' = StatisticsResponse(200,
               [period_days |-> stats.period_days,
                average_score |-> stats.stats.avg_score,
                max_score |-> stats.stats.max_score,
                min_score |-> stats.stats.min_score,
                total_measurements |-> stats.stats.count,
                status_distribution |-> status_counts,
                discomfort_percentage |-> stats.discomfort_percentage,
                alert_count |-> stats.alert_count])
    /\ UNCHANGED <<salles, mesures, indices, alertes, nextMesureId, w, channel,
                   seen, requests, calc, evo, clock>>

\* The statistics view running while one worker ingests readings.
NextStatistics ==
    \/ \E data \in EvolutionRequests : requests < MaxHistory /\ Receive(1, data)
    \/ SaveMesure(1)
    \/ SaveIndice(1)
    \/ SaveAlerte(1)
    \/ Commit(1)
    \/ PersistenceFailure(1)
    \/ Publish(1)
    \/ PublishFailure(1)
    \/ \E days \in DaysParams : statistiques_confort(days)
    \/ get_comfort_statistics_aggregate
    \/ get_comfort_statistics_discomfort
    \/ get_comfort_statistics_total
    \/ get_comfort_statistics_alerts
    \/ get_comfort_statistics_distribution

SpecStatistics == Init /\ [][NextStatistics]_vars

(***************************************************************************)
(* The claims.  The comfort zones, tolerances and weights are restated     *)
(* here as the specification gives them, apart from the tables above.      *)
(***************************************************************************)
ZoneMin == [temperature |-> 22, humidite |-> 40, luminosite |-> 300]

ZoneMax ==
    [temperature |-> 26, humidite |-> 60, luminosite |-> 500, bruit |-> 60,
     air |-> 1000]

Tolerance ==
    [temperature |-> 5, humidite |-> 5, luminosite |-> 5, bruit |-> 10,
     air |-> 10]

Below(param, v) == param \in DOMAIN ZoneMin /\ v < ZoneMin[param]

Above(param, v) == v > ZoneMax[param]

\* The distance from v to the nearest boundary of the zone, 0 inside it.
Distance(param, v) ==
    IF Below(param, v) THEN ZoneMin[param] - v
    ELSE IF Above(param, v) THEN v - ZoneMax[param]
    ELSE 0

IndiceRows(rows, id) == {x \in rows : x.mesure = id}

AlerteRows(rows, id) == {a \in rows : a.mesure = id}

\* The ingestion of worker p ended in a validation or persistence error.
IngestionFailed(p) ==
    /\ w[p].pc = "done"
    /\ w[p].response.body \in
          {"salle_id is required", "not found", "validation", "persistence"}

\* C1: every Measurement visible in the store has exactly one ComfortIndex,
\* and an ingestion that failed (also after its Measurement, its
\* ComfortIndex or some of its Alerts were written) has left none of its
\* Measurement, ComfortIndex or Alert records in the store.
C1_AllOrNothing ==
    /\ \A m \in Visible(mesures) :
          Cardinality(IndiceRows(Visible(indices), m.id)) = 1
    /\ \A p \in Workers :
          IngestionFailed(p) =>
             /\ ~ \E m \in mesures : m.id = w[p].mesure_id
             /\ IndiceRows(indices, w[p].mesure_id) = {}
             /\ AlerteRows(alertes, w[p].mesure_id) = {}

\* C1 witness: an ingestion failed after its Measurement, its ComfortIndex
\* and one of its two Alerts were written, next to a committed reading.
C1_Witness ==
    /\ Visible(mesures) # {}
    /\ \E p \in Workers :
          /\ w[p].pc = "done"
          /\ w[p].response.body = "persistence"
          /\ w[p].mesure_id # 0
          /\ w[p].i = 2
          /\ Len(w[p].alerts_data) = 2

\* What the last reader saw is consistent with the store.
C2_ReaderConsistent ==
    /\ \A m \in Visible(mesures) : IndiceRows(Visible(indices), m.id) # {}
    /\ seen.endpoint = "mesures" =>
          \A id \in seen.rows : IndiceRows(Visible(indices), id) # {}
    /\ seen.endpoint = "indices" =>
          \A id \in seen.rows : \E m \in Visible(mesures) : m.id = id
    /\ seen.endpoint = "alertes" =>
          \A r \in seen.rows :
             {a.id : a \in AlerteRows(Visible(alertes), r[2])}
                = {q[1] : q \in {x \in seen.rows : x[2] = r[2]}}

\* A reading becomes visible in one step: with its ComfortIndex, and with
\* all the Alerts it will ever have.
C2_VisibleInOneStep ==
    /\ \A m \in Visible(mesures)' :
          m \notin Visible(mesures) =>
             IndiceRows(Visible(indices)', m.id) # {}
    /\ \A m \in Visible(mesures) :
          /\ m \in Visible(mesures)'
          /\ IndiceRows(Visible(indices)', m.id) = IndiceRows(Visible(indices), m.id)
          /\ AlerteRows(Visible(alertes)', m.id) = AlerteRows(Visible(alertes), m.id)

\* C2: with ingestions and readers interleaved write by write, no reader
\* sees a Measurement without its ComfortIndex, nor a strict subset of the
\* Alerts of a committed reading: the records of one reading become visible
\* in one step.
C2_Isolation == [] C2_ReaderConsistent /\ [][C2_VisibleInOneStep]_vars

\* C2 witness: a reader has listed the alerts of a committed reading while
\* another ingestion has written one of its two alerts and not committed.
C2_Witness ==
    /\ seen.endpoint = "alertes"
    /\ seen.rows # {}
    /\ \E p \in Workers :
          /\ w[p].pc = "alerts"
          /\ w[p].i = 2
          /\ Len(w[p].alerts_data) = 2
          /\ AlerteRows(alertes, w[p].mesure_id) # {}

ReferencesExistingRoom(data) ==
    "salle_id" \in data.keys /\ data.val.salle_id \in salles

SuppliesFiveValues(data) == ValueKeys \subseteq data.keys

\* C3: an ingestion whose reading names no existing room (identifier absent
\* or unknown) or lacks one of the five values ends in an error outcome and
\* writes nothing.
C3_InvalidReadingRejected ==
    \A p \in Workers :
       (w[p].pc # "idle" /\
        (~ ReferencesExistingRoom(w[p].data) \/ ~ SuppliesFiveValues(w[p].data)))
       => /\ w[p].pc \in {"save_mesure", "done"}
          /\ w[p].mesure_id = 0
          /\ w[p].pc = "done" => w[p].response.status \in {400, 404, 500}

\* The records of the reading of worker p are committed: its Measurement,
\* its ComfortIndex and the Alerts it created.
Committed(p) ==
    /\ \E m \in Visible(mesures) : m.id = w[p].mesure_id
    /\ Cardinality(IndiceRows(Visible(indices), w[p].mesure_id)) = 1
    /\ {a.id : a \in AlerteRows(Visible(alertes), w[p].mesure_id)}
          = {w[p].created_alerts[k] : k \in 1..Len(w[p].created_alerts)}
    /\ Len(w[p].created_alerts) = Len(w[p].alerts_data)

\* C4: group_send is called at most once per ingestion, only after the
\* reading is committed, never for an ingestion that failed validation or
\* persistence; when the call fails the committed records stay and nothing
\* is sent later.
C4_NotifyAfterCommit ==
    /\ \A p \in Workers :
          /\ w[p].sends <= 1
          /\ w[p].sends = 1 => Committed(p)
          /\ IngestionFailed(p) => w[p].sends = 0
          /\ w[p].response.body = "notification" =>
                /\ Committed(p)
                /\ ~ \E b \in channel : b.mesure = w[p].mesure_id
    /\ \A b \in channel :
          /\ b.send = 1
          /\ \E m \in Visible(mesures) : m.id = b.mesure /\ m.salle = b.group
          /\ \A c \in channel : c.mesure = b.mesure => c = b

\* C4 witness: the publish step of a committed reading with two alerts has
\* failed, and the message of another reading was sent.
C4_Witness ==
    /\ channel # {}
    /\ \E p \in Workers :
          /\ w[p].response.body = "notification"
          /\ Len(w[p].created_alerts) = 2
          /\ Committed(p)

\* C5: when the records of the reading were committed, the request is
\* answered with success (201 and the bundle), also when the publish step
\* failed.
C5_NotificationNotEscalated ==
    \A p \in Workers :
       (w[p].pc = "done" /\ w[p].mesure_id # 0 /\ Committed(p))
       => w[p].response.status = 201

\* C6: calculate_parameter_score is 100 inside the zone and
\* max(0, 100 - 10 * d) at distance d outside; it lies in [0, 100] and does
\* not increase with d.
C6_ParameterScore ==
    calc.stage \in {"scored", "alerted"} =>
       \A p \in Params :
          LET v == calc.mesure[p]
              d == Distance(p, v)
              s == calc.scores[p]
          IN  /\ d = 0 => s = 100
              /\ d > 0 => s = Max(0, 100 - 10 * d)
              /\ 0 <= s /\ s <= 100
              /\ \A v2 \in ProbeValues[p] :
                    Distance(p, v2) >= d => calculate_parameter_score(v2, p) <= s

\* C6 witness: a scored reading with a value on a boundary, one 5 beyond,
\* one exactly 10 beyond and one more than 10 beyond.
C6_Witness ==
    /\ calc.stage = "scored"
    /\ calc.mesure.bruit = 60 /\ calc.scores.bruit = 100
    /\ calc.mesure.humidite = 65 /\ calc.scores.humidite = 50
    /\ calc.mesure.temperature = 12 /\ calc.scores.temperature = 0
    /\ calc.mesure.luminosite = 511 /\ calc.scores.luminosite = 0

\* C7: every persisted ComfortIndex has score_global equal to the weighted
\* sum (0.25, 0.20, 0.25, 0.20, 0.10) of its own five scores, all six values
\* lie in [0, 100], and the global score is 100 when all five are 100 and 0
\* when all five are 0.
C7_GlobalScore ==
    \A x \in indices :
       LET five == {x.score_temperature, x.score_humidite, x.score_air,
                    x.score_bruit, x.score_luminosite}
       IN  /\ x.score_global =
                 25 * x.score_temperature + 20 * x.score_humidite +
                 25 * x.score_air + 20 * x.score_bruit + 10 * x.score_luminosite
           /\ \A s \in five : 0 <= s /\ s <= 100
           /\ 0 <= x.score_global /\ x.score_global <= 100 * 100
           /\ five = {100} => x.score_global = 100 * 100
           /\ five = {0} => x.score_global = 0

\* C7 witness: a committed ComfortIndex with five different scores
\* (0, 40, 10, 100, 90) and the global score 39.5.
C7_Witness ==
    \E x \in Visible(indices) :
       /\ x.score_temperature = 0 /\ x.score_humidite = 40 /\ x.score_air = 10
       /\ x.score_bruit = 100 /\ x.score_luminosite = 90
       /\ x.score_global = 3950

\* Global scores on and next to the ends of the bands, in hundredths.
BandProbe == {0, 3950, 3999, 4000, 4001, 6950, 6999, 7000, 7001, 10000}

Band(g) ==
    IF g >= 7000 THEN "comfort" ELSE IF g >= 4000 THEN "warning" ELSE "danger"

\* C8: determine_status gives comfort exactly for g >= 70, warning exactly
\* for 40 <= g < 70 and danger exactly for g < 40, and the statut of every
\* persisted ComfortIndex is the band of its score_global.
C8_StatusBands ==
    /\ \A g \in BandProbe :
          /\ determine_status(g) = "comfort" <=> g >= 7000
          /\ determine_status(g) = "warning" <=> (4000 <= g /\ g < 7000)
          /\ determine_status(g) = "danger" <=> g < 4000
    /\ \A x \in indices : x.statut = Band(x.score_global)

\* C8 witness: a committed ComfortIndex whose global score is exactly 70.0.
C8_Witness ==
    \E x \in Visible(indices) : x.score_global = 7000 /\ x.statut = "comfort"

\* C9: for every persisted Measurement and each parameter, there is an
\* Alert of that type for it exactly when the value is outside the zone,
\* and then only one.
C9_AlertIffOutside ==
    \A m \in Visible(mesures) :
       \A p \in Params :
          Cardinality({a \in AlerteRows(Visible(alertes), m.id) : a.type = p})
             = IF Distance(p, m[p]) > 0 THEN 1 ELSE 0

\* C9 witness: a committed reading with air and light on the boundary of
\* their zones, temperature and noise outside, and exactly two alerts.
C9_Witness ==
    \E m \in Visible(mesures) :
       /\ m.temperature = 16 /\ m.humidite = 50 /\ m.air = 1000
       /\ m.bruit = 70 /\ m.luminosite = 400
       /\ {a.type : a \in AlerteRows(Visible(alertes), m.id)}
             = {"temperature", "bruit"}

\* The alerts generate_alerts gives for one value of one parameter.
AlertsFor(param, v) ==
    LET out == generate_alerts([BaseReading EXCEPT ![param] = v], <<>>)
    IN  {out[k] : k \in {j \in 1..Len(out) : out[j].type = param}}

\* C10: the threshold of an alert is the boundary that was violated, and
\* its level is warning when the value is at most 5 (temperature, humidity,
\* light) or 10 (noise, air) beyond it, danger otherwise.
C10_AlertLevel ==
    /\ calc.stage = "alerted" =>
          \A k \in 1..Len(calc.alerts) :
             LET a == calc.alerts[k]
                 v == calc.mesure[a.type]
             IN  /\ a.valeur = v
                 /\ Below(a.type, v) \/ Above(a.type, v)
                 /\ Below(a.type, v) => a.seuil = ZoneMin[a.type]
                 /\ Above(a.type, v) => a.seuil = ZoneMax[a.type]
                 /\ a.niveau = IF Distance(a.type, v) <= Tolerance[a.type]
                               THEN "warning" ELSE "danger"
    /\ {<<a.seuil, a.niveau>> : a \in AlertsFor("temperature", 21)}
          = {<<22, "warning">>}
    /\ {a.niveau : a \in AlertsFor("temperature", 10)} = {"danger"}
    /\ {a.niveau : a \in AlertsFor("bruit", 65)} = {"warning"}
    /\ {a.niveau : a \in AlertsFor("bruit", 75)} = {"danger"}

\* C10 witness: the alerts of a reading with noise 10 above its maximum
\* (warning), air 11 above (danger), temperature 6 below its minimum
\* (danger) and light 5 above its maximum (warning).
C10_Witness ==
    /\ calc.stage = "alerted"
    /\ calc.mesure.bruit = 70 /\ calc.mesure.air = 1011
    /\ calc.mesure.temperature = 16 /\ calc.mesure.luminosite = 505
    /\ {<<"bruit", 60, "warning">>, <<"air", 1000, "danger">>,
        <<"temperature", 22, "danger">>, <<"luminosite", 500, "warning">>}
          \subseteq
             {<<calc.alerts[k].type, calc.alerts[k].seuil, calc.alerts[k].niveau>> :
                k \in 1..Len(calc.alerts)}

\* The evolution has answered with a list: evo holds the request, the rows
\* of the room its two queries read, the dates and the list returned.
EvolutionAnswered == evo.stage = "done" /\ evo.status = 200

\* The interval of a bucket is [period, period + delta).
InBucket(x, b) ==
    b.period <= x.timestamp /\ x.timestamp < b.period + delta(evo.period)

\* The positions of the emitted buckets whose interval holds record x.
BucketsOf(x) == {i \in 1..Len(evo.data) : InBucket(x, evo.data[i])}

\* The keys are strictly increasing, the intervals do not overlap, every
\* bucket holds a record of the room, and an empty history gives no bucket.
BucketsWellFormed ==
    /\ \A i, j \in 1..Len(evo.data) :
           i < j => /\ evo.data[i].period < evo.data[j].period
                    /\ evo.data[i].period + delta(evo.period)
                           <= evo.data[j].period
    /\ \A i \in 1..Len(evo.data) :
           \E x \in evo.rows : InBucket(x, evo.data[i])
    /\ evo.rows = {} => evo.data = <<>>

\* C11 as stated: the buckets get_comfort_evolution emits have strictly
\* increasing keys and disjoint intervals, none is empty, an empty history
\* gives an empty list, and every ComfortIndex record of the room, whatever
\* its timestamp, falls into exactly one emitted bucket.
C11_EveryRecordInOneBucket ==
    EvolutionAnswered =>
        /\ BucketsWellFormed
        /\ \A x \in evo.rows : Cardinality(BucketsOf(x)) = 1

\* C11 amended: the same, but only the records of the room stamped from the
\* earliest timestamp the room held when the call began up to the query
\* time fall into exactly one emitted bucket.
C11_RecordsInRangeInOneBucket ==
    EvolutionAnswered =>
        /\ BucketsWellFormed
        /\ \A x \in evo.rows :
               (evo.earliest <= x.timestamp /\ x.timestamp <= evo.end_date)
                   => Cardinality(BucketsOf(x)) = 1

\* Two buckets were emitted, each record of the room in one of them.
C11_Witness ==
    /\ EvolutionAnswered
    /\ Len(evo.data) >= 2
    /\ \A x \in evo.rows : Cardinality(BucketsOf(x)) = 1

\* The records aggregated in bucket b: those min, max and avg range over.
Aggregated(b) ==
    GroupRows(queryset(evo.rows, evo.earliest, evo.end_date), evo.period,
              b.period)

\* The records of a set that hold its latest timestamp.
LatestOf(rows) == {x \in rows : \A y \in rows : y.timestamp <= x.timestamp}

\* C12: in every emitted bucket the six current values are those of one
\* single record, a record with the latest timestamp among the records
\* aggregated in the bucket, also when several share that timestamp; and in
\* a bucket of exactly one record min = max = avg = current for every signal.
C12_CurrentFromOneLatestRecord ==
    EvolutionAnswered =>
        \A i \in 1..Len(evo.data) :
            LET b == evo.data[i]
                rows == Aggregated(b)
            IN  /\ \E x \in LatestOf(rows) :
                       \A s \in Signals : b.current[s] = x[s]
                /\ Cardinality(rows) = 1 =>
                       \A s \in Signals :
                           /\ b.min[s] = b.max[s]
                           /\ b.avg[s].sum = b.min[s] * b.avg[s].count
                           /\ b.current[s] = b.min[s]

\* C13: in every emitted bucket and for each signal, min <= avg <= max and
\* min <= current <= max, current being the value of one of the records the
\* bucket aggregates, whatever timestamps the history holds.
C13_CurrentWithinMinMax ==
    EvolutionAnswered =>
        \A i \in 1..Len(evo.data) :
            LET b == evo.data[i]
            IN  \A s \in Signals :
                    /\ b.min[s] * b.avg[s].count <= b.avg[s].sum
                    /\ b.avg[s].sum <= b.max[s] * b.avg[s].count
                    /\ b.min[s] <= b.current[s]
                    /\ b.current[s] <= b.max[s]
                    /\ \E x \in Aggregated(b) : b.current[s] = x[s]

====
